---- MODULE Spec2Model ----
(***************************************************************************)
(* Model of the golem-exec JavaScript backend sketch that                  *)
(* src/exec/javascript_executor_generator.py generates: the shared         *)
(* SessionManager and ResourceLimiter, ExecutionSession (upload_file,      *)
(* run_code), JavaScriptExecutor::execute_code and the stateless           *)
(* Guest::run; and of the main sequence of src/exec/rust_installer.py.     *)
(*                                                                         *)
(* Option<T> is a sequence of length at most one: None is <<>>, Some(v) is *)
(* <<v>>.  A String is a sequence of tokens, the empty String is <<>>.     *)
(* A Vec<u8> is a sequence of byte values.  HashMap<K, V> is a function.   *)
(*                                                                         *)
(* The source keeps a session's data in SessionManager::sessions and the   *)
(* operations on a session's files in ExecutionSession; the model applies  *)
(* upload_file and run_code to the files of the session the manager finds  *)
(* under the id (get_session_mut / get_session).                           *)
(***************************************************************************)
EXTENDS Integers, Sequences, FiniteSets, TLC

VARIABLES sessions, recent, now, pc, inv, last,
          limiter, chk,
          ipc, success, cargo, ran

(* the session manager and the call in progress *)
execVars == <<sessions, recent, now, pc, inv, last>>
(* a ResourceLimiter and the outcome of its last check *)
limiterVars == <<limiter, chk>>
(* the installer script's main sequence *)
installerVars == <<ipc, success, cargo, ran>>

vars == <<execVars, limiterVars, installerVars>>

None == <<>>
Some(v) == <<v>>

----------------------------------------------------------------------------
(* Bounds of the model *)

TimeLimitMs == 1
Overhead == 1
MaxFiles == 2

SlowDur == TimeLimitMs + 1
MaxClock == TimeLimitMs + Overhead + 1

(* Program constants *)
DefaultTimeoutMs == 5000

Ids == {"s1", "s2"}
Languages == {"javascript", "python"}
Names == {"a.js", "b.js"}
MemLimit == 64

----------------------------------------------------------------------------
(* Source bytes the calls are tried with. *)

SrcValue == <<118>>
SrcThrow == <<116>>
SrcLoop == <<108>>
SrcSlow == <<115>>
SrcPrint == <<112>>
SrcTwoByte == <<195, 169>>
SrcBadByte == <<255>>
SrcTruncated == <<195>>

Contents ==
  {SrcValue, SrcThrow, SrcLoop, SrcSlow, SrcPrint, SrcTwoByte, SrcBadByte, SrcTruncated}

(* files of a stateless call: the first is any file, the others are fillers *)
Files == [name : Names, content : Contents]
OtherFiles == [name : Names, content : {SrcValue}]

RunFileSets ==
  UNION {{f \in [1..n -> Files \cup OtherFiles] :
            \A i \in 2..n : f[i] \in OtherFiles} : n \in 0..MaxFiles}

(* files uploaded to sessions *)
UploadFiles == [name : Names, content : {SrcValue, SrcThrow, SrcBadByte}]

Limits(time_ms, memory_bytes) == [time_ms |-> time_ms, memory_bytes |-> memory_bytes]

LimitsSet ==
  {None, Some(Limits(None, Some(MemLimit))), Some(Limits(Some(TimeLimitMs), None))}

----------------------------------------------------------------------------
(* std::collections::HashMap *)

EmptyMap == [k \in {} |-> None]

MapInsert(m, k, v) == [x \in (DOMAIN m) \cup {k} |-> IF x = k THEN v ELSE m[x]]

MapGet(m, k) == IF k \in DOMAIN m THEN Some(m[k]) ELSE None

MapRemove(m, k) == [x \in (DOMAIN m) \ {k} |-> m[x]]

----------------------------------------------------------------------------
(* String::from_utf8: one-byte and two-byte sequences are decoded to code  *)
(* points, any other lead byte or a missing/ill-formed continuation byte   *)
(* is an error.                                                            *)

RECURSIVE Utf8Decode(_)
Utf8Decode(bytes) ==
  IF bytes = <<>> THEN [ok |-> TRUE, text |-> <<>>]
  ELSE LET b == Head(bytes) IN
    IF b < 128
      THEN LET r == Utf8Decode(Tail(bytes)) IN
           [ok |-> r.ok, text |-> IF r.ok THEN <<b>> \o r.text ELSE <<>>]
    ELSE IF b >= 194 /\ b <= 223 /\ Len(bytes) >= 2
            /\ bytes[2] >= 128 /\ bytes[2] <= 191
      THEN LET r == Utf8Decode(Tail(Tail(bytes))) IN
           [ok |-> r.ok,
            text |-> IF r.ok THEN <<(b - 192) * 64 + (bytes[2] - 128)>> \o r.text
                     ELSE <<>>]
    ELSE [ok |-> FALSE, text |-> <<>>]

from_utf8(bytes) == Utf8Decode(bytes)

----------------------------------------------------------------------------
(* ctx.eval(code): what the interpreter does with a decoded source text.   *)
(* kind is "value" (evaluation returns), "throw" (the program raises) or   *)
(* "loop" (evaluation never returns); dur is the time evaluation takes;    *)
(* prints is what the program passes to console.log.                       *)

JsUndefined == [type |-> "undefined", str |-> ""]
JsString(s) == [type |-> "string", str |-> s]
JsNumber(s) == [type |-> "number", str |-> s]

Behaviour(kind, dur, value, fault, prints) ==
  [kind |-> kind, dur |-> dur, value |-> value, fault |-> fault, prints |-> prints]

Interp(text) ==
  IF text = <<118>> THEN Behaviour("value", 0, JsString("ok"), "", <<>>)
  ELSE IF text = <<116>> THEN Behaviour("throw", 0, JsUndefined, "boom", <<>>)
  ELSE IF text = <<108>> THEN Behaviour("loop", 0, JsUndefined, "", <<>>)
  ELSE IF text = <<115>> THEN Behaviour("value", SlowDur, JsNumber("42"), "", <<>>)
  ELSE IF text = <<112>> THEN Behaviour("value", 0, JsUndefined, "", <<"hi">>)
  ELSE Behaviour("throw", 0, JsUndefined, "SyntaxError", <<>>)

(* lines 61-69: the evaluation result converted to the stdout string *)
ValueToString(v) ==
  IF v.type = "undefined" THEN <<"undefined">>
  ELSE IF v.type = "null" THEN <<"null">>
  ELSE IF v.type = "string" THEN <<v.str>>
  ELSE <<"Debug(", v.str, ")">>

(* lines 116-119: console.log(msg) is println!("{}", msg), one line per   *)
(* message                                                                 *)
RECURSIVE Println(_)
Println(msgs) ==
  IF msgs = <<>> THEN <<>> ELSE <<Head(msgs), "\n">> \o Println(Tail(msgs))

(* lines 44-48: the timeout execute_code computes from the limits *)
Timeout(limits) ==
  IF limits # None /\ limits[1].time_ms # None
    THEN limits[1].time_ms[1]
    ELSE DefaultTimeoutMs

StageResult(stdout, stderr, exit_code, signal) ==
  [stdout |-> stdout, stderr |-> stderr, exit_code |-> exit_code, signal |-> signal]

(* the Ok arm without an exit code *)
ExecOk_NoExitCode(stdout, elapsed) ==
  [compile |-> None,
   run |-> StageResult(stdout, <<>>, None, None),
   time_ms |-> Some(elapsed),
   memory_bytes |-> None]

(* lines 76-91: the Ok arm of execute_code *)
ExecOk(stdout, elapsed) ==
  [compile |-> None,
   run |-> StageResult(stdout, <<>>, Some(0), None),
   time_ms |-> Some(elapsed),
   memory_bytes |-> None]

(* the Err arm that reports the fault as a compile stage *)
ExecErr_AsCompile(e, elapsed) ==
  [compile |-> Some(StageResult(<<>>, <<"JavaScript Error: ", e>>, Some(1), None)),
   run |-> StageResult(<<>>, <<"JavaScript Error: ", e>>, Some(1), None),
   time_ms |-> Some(elapsed),
   memory_bytes |-> None]

(* the Err arm without the error's text *)
ExecErr_DropsFault(e, elapsed) ==
  [compile |-> None,
   run |-> StageResult(<<>>, <<"JavaScript Error">>, Some(1), None),
   time_ms |-> Some(elapsed),
   memory_bytes |-> None]

(* lines 92-106: the Err arm of execute_code *)
ExecErr(e, elapsed) ==
  [compile |-> None,
   run |-> StageResult(<<>>, <<"JavaScript Error: ", e>>, Some(1), None),
   time_ms |-> Some(elapsed),
   memory_bytes |-> None]

(* lines 74-107: the Result_ execute_code builds once evaluation is over *)
ExecuteResult(beh, elapsed) ==
  IF beh.kind = "value"
    THEN ExecOk(ValueToString(beh.value), elapsed)
    ELSE ExecErr(beh.fault, elapsed)

----------------------------------------------------------------------------
(* Errors.  Guest::run maps every failure to Error::Internal(message);     *)
(* run_code returns anyhow errors, told apart by what they wrap.           *)

NoErr == [kind |-> "", msg |-> ""]
ErrInternal(msg) == [kind |-> "Internal", msg |-> msg]
ErrAnyhow(msg) == [kind |-> "anyhow", msg |-> msg]

(* lines 177-189: Guest::run up to the call of execute_code *)
GuestRunPrepare(files, rtOk) ==
  IF ~rtOk THEN [ok |-> FALSE, err |-> ErrInternal("Runtime::new"), text |-> <<>>]
  ELSE IF files = <<>>
    THEN [ok |-> FALSE, err |-> ErrInternal("No files provided"), text |-> <<>>]
  ELSE LET d == from_utf8(files[1].content) IN
    IF ~d.ok THEN [ok |-> FALSE, err |-> ErrInternal("FromUtf8Error"), text |-> <<>>]
    ELSE [ok |-> TRUE, err |-> NoErr, text |-> d.text]

(* lines 152-157: run_code up to the call of execute_code *)
RunCodePrepare(files, entrypoint) ==
  IF MapGet(files, entrypoint) = None
    THEN [ok |-> FALSE, err |-> ErrAnyhow("File not found"), text |-> <<>>]
  ELSE LET d == from_utf8(MapGet(files, entrypoint)[1]) IN
    IF ~d.ok THEN [ok |-> FALSE, err |-> ErrAnyhow("FromUtf8Error"), text |-> <<>>]
    ELSE [ok |-> TRUE, err |-> NoErr, text |-> d.text]

----------------------------------------------------------------------------
(* SessionManager *)

SessionData(language, t) ==
  [language |-> language, files |-> EmptyMap, working_dir |-> "/", created_at |-> t]

(* create_session that keeps what is registered under the id and only     *)
(* sets its language                                                       *)
create_session_KeepsFiles(s, id, language, t) ==
  [sessions |-> IF id \in DOMAIN s
                  THEN [s EXCEPT ![id].language = language]
                  ELSE MapInsert(s, id, SessionData(language, t)),
   ret |-> "Ok"]

create_session(s, id, language, t) ==
  [sessions |-> MapInsert(s, id, SessionData(language, t)), ret |-> "Ok"]

(* get_session that answers an unknown id with a default session *)
get_session_OrDefault(s, id) ==
  IF id \in DOMAIN s THEN Some(s[id]) ELSE Some(SessionData("javascript", 0))

get_session(s, id) == MapGet(s, id)

get_session_mut(s, id) == MapGet(s, id)

remove_session(s, id) == [sessions |-> MapRemove(s, id), ret |-> MapGet(s, id)]

(* upload_file that replaces the whole mapping by the uploaded file *)
upload_file_DropsOthers(files, file) == MapInsert(EmptyMap, file.name, file.content)

(* upload_file that keeps the content a name already has *)
upload_file_KeepsFirst(files, file) ==
  IF file.name \in DOMAIN files THEN files ELSE MapInsert(files, file.name, file.content)

(* ExecutionSession::upload_file *)
upload_file(files, file) == MapInsert(files, file.name, file.content)

----------------------------------------------------------------------------
(* State.                                                                  *)
(*   sessions  SessionManager::sessions                                    *)
(*   recent    per id, the content most recently uploaded under each name  *)
(*             since the session was registered (history variable)         *)
(*   now       the clock Instant::now() reads                              *)
(*   pc        "idle", or "running" while a call is inside ctx.eval        *)
(*   inv       the call that is inside ctx.eval                            *)
(*   last      the outcome of the most recent operation; NoCall while a    *)
(*             call is in progress.  existed: the id was registered when   *)
(*             the operation began; replaced: the operation overwrote      *)
(*             uploaded content (create: the session had files, upload:    *)
(*             the name held another content); console: what the call's    *)
(*             program wrote with console.log, which println! sends to the *)
(*             process's standard output; runtime: "call" when the call    *)
(*             constructed the runtime it evaluated on, "session" when it  *)
(*             used the runtime of the session's executor, which           *)
(*             ExecutionSession::new constructed                           *)

NoInv ==
  [op |-> "none", id |-> "", name |-> "", nfiles |-> 0, text |-> <<>>,
   limits |-> None, timeout |-> 0, start_time |-> 0, runtime |-> "",
   iter |-> 0]

NoCall ==
  [op |-> "none", id |-> "", name |-> "", lang |-> "", ret |-> "", err |-> NoErr,
   result |-> None, executed |-> None, nfiles |-> 0, limits |-> None,
   existed |-> FALSE, replaced |-> FALSE, console |-> <<>>, runtime |-> ""]

(* outcome of a session manager operation *)
Managed(op, id, name, lang, ret, existed, replaced) ==
  [NoCall EXCEPT !.op = op, !.id = id, !.name = name, !.lang = lang, !.ret = ret,
                 !.existed = existed, !.replaced = replaced]

(* a run that failed before any code was executed *)
Failed(op, id, name, nfiles, limits, ret, err) ==
  [NoCall EXCEPT !.op = op, !.id = id, !.name = name, !.nfiles = nfiles,
                 !.limits = limits, !.ret = ret, !.err = err, !.existed = (ret # "None")]

(* ResourceLimiter::new has not been called; check_timeout has not *)
NoLimiter == [built |-> FALSE, max_memory |-> None, max_time |-> None]
NoCheck == [done |-> FALSE, max_time |-> None, elapsed_ms |-> 0, ret |-> ""]

TypeOK ==
  /\ DOMAIN sessions \subseteq Ids
  /\ now \in 0..MaxClock
  /\ pc \in {"idle", "running"}
  /\ pc = "idle" <=> inv = NoInv

Init ==
  /\ sessions = EmptyMap
  /\ recent = [id \in Ids |-> EmptyMap]
  /\ now = 0
  /\ pc = "idle"
  /\ inv = NoInv
  /\ last = NoCall
  /\ limiter = NoLimiter
  /\ chk = NoCheck
  /\ ipc = "start"
  /\ success = TRUE
  /\ cargo = FALSE
  /\ ran = {}

(* SessionManager::create_session(id, language) *)
Create(id, language) ==
  /\ pc = "idle"
  /\ LET r == create_session(sessions, id, language, now) IN
       /\ sessions' = r.sessions
       /\ last' = Managed("create", id, "", language, r.ret, id \in DOMAIN sessions,
                          id \in DOMAIN sessions /\ sessions[id].files # EmptyMap)
  /\ recent' = [recent EXCEPT ![id] = EmptyMap]
  /\ UNCHANGED <<now, pc, inv, limiterVars, installerVars>>

(* upload that does not wait for the call in progress to return *)
Upload_Unserialized(id, file) ==
  /\ LET m == get_session_mut(sessions, id) IN
       IF m = None
         THEN /\ last' = Managed("upload", id, file.name, "", "None", FALSE, FALSE)
              /\ UNCHANGED <<sessions, recent>>
         ELSE /\ sessions' = [sessions EXCEPT ![id].files = upload_file(@, file)]
              /\ recent' = [recent EXCEPT ![id] =
                              [n \in (DOMAIN @) \cup {file.name} |->
                                 IF n = file.name THEN file.content ELSE @[n]]]
              /\ last' = Managed("upload", id, file.name, "", "Ok", TRUE,
                                 /\ file.name \in DOMAIN m[1].files
                                 /\ m[1].files[file.name] # file.content)
  /\ UNCHANGED <<now, pc, inv, limiterVars, installerVars>>

(* upload(id, file): get_session_mut(id), then upload_file on its files *)
Upload(id, file) ==
  /\ pc = "idle"
  /\ LET m == get_session_mut(sessions, id) IN
       IF m = None
         THEN /\ last' = Managed("upload", id, file.name, "", "None", FALSE, FALSE)
              /\ UNCHANGED <<sessions, recent>>
         ELSE /\ sessions' = [sessions EXCEPT ![id].files = upload_file(@, file)]
              /\ recent' = [recent EXCEPT ![id] =
                              [n \in (DOMAIN @) \cup {file.name} |->
                                 IF n = file.name THEN file.content ELSE @[n]]]
              /\ last' = Managed("upload", id, file.name, "", "Ok", TRUE,
                                 /\ file.name \in DOMAIN m[1].files
                                 /\ m[1].files[file.name] # file.content)
  /\ UNCHANGED <<now, pc, inv, limiterVars, installerVars>>

(* SessionManager::get_session(id) *)
Get(id) ==
  /\ pc = "idle"
  /\ LET m == get_session(sessions, id) IN
       last' = Managed("get", id, "", "", IF m = None THEN "None" ELSE "Some",
                       id \in DOMAIN sessions, FALSE)
  /\ UNCHANGED <<sessions, recent, now, pc, inv, limiterVars, installerVars>>

(* SessionManager::get_session_mut(id) *)
GetMut(id) ==
  /\ pc = "idle"
  /\ LET m == get_session_mut(sessions, id) IN
       last' = Managed("get_mut", id, "", "", IF m = None THEN "None" ELSE "Some",
                       id \in DOMAIN sessions, FALSE)
  /\ UNCHANGED <<sessions, recent, now, pc, inv, limiterVars, installerVars>>

(* SessionManager::remove_session(id) *)
Remove(id) ==
  /\ pc = "idle"
  /\ LET r == remove_session(sessions, id) IN
       /\ sessions' = r.sessions
       /\ last' = Managed("remove", id, "", "", IF r.ret = None THEN "None" ELSE "Some",
                          id \in DOMAIN sessions, FALSE)
  /\ recent' = [recent EXCEPT ![id] = EmptyMap]
  /\ UNCHANGED <<now, pc, inv, limiterVars, installerVars>>

(* JavaScriptExecutor::execute_code up to ctx.eval: reads the clock,       *)
(* computes the timeout, builds the context (which may fail) and enters    *)
(* the evaluation.                                                         *)
EnterEval(op, id, name, nfiles, text, limits, ctxOk, runtime) ==
  IF ~ctxOk
    THEN /\ last' = Failed(op, id, name, nfiles, limits, "Err",
                           IF op = "run" THEN ErrInternal("Context::full")
                                         ELSE ErrAnyhow("Context::full"))
         /\ UNCHANGED <<pc, inv>>
    ELSE /\ pc' = "running"
         /\ inv' = [op |-> op, id |-> id, name |-> name, nfiles |-> nfiles,
                    text |-> text, limits |-> limits, timeout |-> Timeout(limits),
                    start_time |-> now, runtime |-> runtime, iter |-> 0]
         /\ last' = NoCall

(* Guest::run(lang, files, stdin, args, env, constraints) *)
Run(files, limits, rtOk, ctxOk) ==
  /\ pc = "idle"
  /\ LET p == GuestRunPrepare(files, rtOk) IN
       IF ~p.ok
         THEN /\ last' = Failed("run", "", "", Len(files), limits, "Err", p.err)
              /\ UNCHANGED <<pc, inv>>
         ELSE EnterEval("run", "", files[1].name, Len(files), p.text, limits, ctxOk,
                        "call")
  /\ UNCHANGED <<sessions, recent, now, limiterVars, installerVars>>

(* run against a session: get_session(id), then run_code(entrypoint) *)
SessionRun(id, entrypoint, limits, ctxOk) ==
  /\ pc = "idle"
  /\ LET m == get_session(sessions, id) IN
       IF m = None
         THEN /\ last' = Failed("session_run", id, entrypoint, 0, limits, "None", NoErr)
              /\ UNCHANGED <<pc, inv>>
         ELSE LET p == RunCodePrepare(m[1].files, entrypoint)
                  n == Cardinality(DOMAIN m[1].files)
              IN IF ~p.ok
                   THEN /\ last' = Failed("session_run", id, entrypoint, n, limits,
                                          "Err", p.err)
                        /\ UNCHANGED <<pc, inv>>
                   ELSE EnterEval("session_run", id, entrypoint, n, p.text, limits,
                                  ctxOk, "session")
  /\ UNCHANGED <<sessions, recent, now, limiterVars, installerVars>>

(* ctx.eval returns (a value or an error) and execute_code builds the      *)
(* Result_ from it; nothing in execute_code ends an evaluation that does   *)
(* not return.                                                             *)
EvalReturn ==
  /\ pc = "running"
  /\ LET beh == Interp(inv.text)
         elapsed == now - inv.start_time
     IN /\ beh.kind # "loop"
        /\ elapsed = beh.dur
        /\ last' = [NoCall EXCEPT !.op = inv.op, !.id = inv.id, !.name = inv.name,
                                  !.nfiles = inv.nfiles, !.limits = inv.limits,
                                  !.ret = "Ok",
                                  !.result = Some(ExecuteResult(beh, elapsed)),
                                  !.executed = Some(inv.text),
                                  !.console = Println(beh.prints),
                                  !.runtime = inv.runtime,
                                  !.existed = (inv.op = "session_run")]
  /\ pc' = "idle"
  /\ inv' = NoInv
  /\ UNCHANGED <<sessions, recent, now, limiterVars, installerVars>>

(* the evaluation of a program that never terminates goes round its loop  *)
(* once more (iter is the parity of the rounds); ctx.eval has no interrupt *)
(* that would end it                                                       *)
EvalLoops ==
  /\ pc = "running"
  /\ Interp(inv.text).kind = "loop"
  /\ inv' = [inv EXCEPT !.iter = 1 - @]
  /\ UNCHANGED <<sessions, recent, now, pc, last, limiterVars, installerVars>>

(* time passes; an evaluation that returns does so when its time is up *)
Tick ==
  /\ now < MaxClock
  /\ pc = "running" =>
       \/ Interp(inv.text).kind = "loop"
       \/ now - inv.start_time < Interp(inv.text).dur
  /\ now' = now + 1
  /\ UNCHANGED <<sessions, recent, pc, inv, last, limiterVars, installerVars>>

(* Stateless calls: Guest::run and the evaluation it waits for. *)
NextRun ==
  \/ \E files \in RunFileSets, limits \in LimitsSet, rtOk \in BOOLEAN, ctxOk \in BOOLEAN :
       Run(files, limits, rtOk, ctxOk)
  \/ EvalReturn
  \/ EvalLoops
  \/ Tick

SpecRun == Init /\ [][NextRun]_vars

(* the same, with an evaluation that can return returning and time passing *)
FairSpecRun ==
  SpecRun /\ WF_vars(EvalReturn) /\ WF_vars(EvalLoops) /\ WF_vars(Tick)

(* Sessions: the manager's operations, uploads and runs against a session. *)
NextSession ==
  \/ \E id \in Ids, language \in Languages : Create(id, language)
  \/ \E id \in Ids, file \in UploadFiles : Upload(id, file)
  \/ \E id \in Ids : Get(id)
  \/ \E id \in Ids : GetMut(id)
  \/ \E id \in Ids : Remove(id)
  \/ \E id \in Ids, entrypoint \in Names, limits \in LimitsSet, ctxOk \in BOOLEAN :
       SessionRun(id, entrypoint, limits, ctxOk)
  \/ EvalReturn

SpecSession == Init /\ [][NextSession]_vars

----------------------------------------------------------------------------
(* ResourceLimiter.  A Duration is whole seconds and nanoseconds.          *)

from_millis(ms) == [secs |-> ms \div 1000, nanos |-> (ms % 1000) * 1000000]

DurationGt(a, b) == a.secs > b.secs \/ (a.secs = b.secs /\ a.nanos > b.nanos)

(* lines 286-291: ResourceLimiter::new *)
ResourceLimiter_new(max_memory, max_time_ms) ==
  [built |-> TRUE,
   max_memory |-> max_memory,
   max_time |-> IF max_time_ms = None THEN None ELSE Some(from_millis(max_time_ms[1]))]

(* lines 293-300: check_timeout, elapsed being start.elapsed() *)
check_timeout(lim, elapsed) ==
  IF lim.max_time # None /\ DurationGt(elapsed, lim.max_time[1])
    THEN "Timeout"
    ELSE "Ok"

(* budgets and elapsed times the limiter is tried with *)
TimeBudgets == {None, Some(0), Some(TimeLimitMs), Some(DefaultTimeoutMs)}

ElapsedSet ==
  {0, TimeLimitMs, TimeLimitMs + 1, DefaultTimeoutMs, DefaultTimeoutMs + 1}

NewLimiter(max_memory, max_time_ms) ==
  /\ limiter' = ResourceLimiter_new(max_memory, max_time_ms)
  /\ UNCHANGED <<chk, execVars, installerVars>>

CheckTimeout(elapsed_ms) ==
  /\ limiter.built
  /\ chk' = [done |-> TRUE, max_time |-> limiter.max_time, elapsed_ms |-> elapsed_ms,
             ret |-> check_timeout(limiter, from_millis(elapsed_ms))]
  /\ UNCHANGED <<limiter, execVars, installerVars>>

NextLimiter ==
  \/ \E max_memory \in {None, Some(MemLimit)}, max_time_ms \in TimeBudgets :
       NewLimiter(max_memory, max_time_ms)
  \/ \E elapsed_ms \in ElapsedSet : CheckTimeout(elapsed_ms)

SpecLimiter == Init /\ [][NextLimiter]_vars

----------------------------------------------------------------------------
(* The installer script, src/exec/rust_installer.py.  ipc is the step of   *)
(* the main sequence that comes next, success is main's variable, cargo    *)
(* tells whether a cargo command is on the PATH, ran is the set of steps   *)
(* that were run, each with its outcome.                                   *)

WasmTools == {"wasm-tools", "wit-bindgen-cli"}
VerifyChecks == {"cargo", "rustc", "cargo-component"}

(* lines 13-60: install_rust.  probe is what `cargo --version` does        *)
(* ("ok", "fails", "missing"), installer_ok whether the download and the   *)
(* installer succeed, path_exists whether ~/.cargo/bin exists afterwards.  *)
install_rust(probe, installer_ok, path_exists) ==
  IF probe = "ok" THEN [ret |-> TRUE, cargo |-> TRUE]
  ELSE IF ~installer_ok THEN [ret |-> FALSE, cargo |-> probe = "fails"]
  ELSE [ret |-> TRUE, cargo |-> (probe = "fails" \/ path_exists)]

(* lines 62-84: install_cargo_component *)
install_cargo_component(has_cargo, install_ok) == has_cargo /\ install_ok

(* lines 108-130: verify_installation; ok is the outcome of each check's   *)
(* command, which cannot be run without cargo except for rustc             *)
verify_installation(has_cargo, ok) ==
  \A c \in VerifyChecks : ok[c] /\ (c = "rustc" \/ has_cargo)

(* lines 157-158 *)
MainInstallRust(probe, installer_ok, path_exists) ==
  /\ ipc = "start"
  /\ LET r == install_rust(probe, installer_ok, path_exists) IN
       /\ success' = IF ~r.ret THEN FALSE ELSE success
       /\ cargo' = r.cargo
       /\ ran' = ran \cup {<<"install_rust", r.ret>>}
  /\ ipc' = "cargo_component"
  /\ UNCHANGED <<execVars, limiterVars>>

(* lines 161-162 *)
MainInstallCargoComponent(install_ok) ==
  /\ ipc = "cargo_component"
  /\ IF success
       THEN LET r == install_cargo_component(cargo, install_ok) IN
              /\ success' = IF ~r THEN FALSE ELSE success
              /\ ran' = ran \cup {<<"install_cargo_component", r>>}
       ELSE UNCHANGED <<success, ran>>
  /\ ipc' = "wasm_tools"
  /\ UNCHANGED <<cargo, execVars, limiterVars>>

(* the mutant of lines 165-166 in which a tool that fails to install fails *)
(* the setup                                                               *)
MainInstallWasmTools_ToolFails(tool_ok) ==
  /\ ipc = "wasm_tools"
  /\ IF success /\ cargo
       THEN /\ ran' = ran \cup {<<t, tool_ok[t]>> : t \in WasmTools}
                          \cup {<<"install_wasm_tools", TRUE>>}
            /\ success' = \A t \in WasmTools : tool_ok[t]
            /\ ipc' = "verify"
       ELSE /\ ipc' = IF success THEN "aborted" ELSE "verify"
            /\ UNCHANGED <<success, ran>>
  /\ UNCHANGED <<cargo, execVars, limiterVars>>

(* lines 165-166 and 86-106: install_wasm_tools catches each tool's        *)
(* CalledProcessError and returns nothing; without a cargo command         *)
(* subprocess.run raises FileNotFoundError, which nothing catches          *)
MainInstallWasmTools(tool_ok) ==
  /\ ipc = "wasm_tools"
  /\ IF success /\ cargo
       THEN /\ ran' = ran \cup {<<t, tool_ok[t]>> : t \in WasmTools}
                          \cup {<<"install_wasm_tools", TRUE>>}
            /\ ipc' = "verify"
            /\ UNCHANGED success
       ELSE /\ ipc' = IF success THEN "aborted" ELSE "verify"
            /\ UNCHANGED <<success, ran>>
  /\ UNCHANGED <<cargo, execVars, limiterVars>>

(* lines 169-170 *)
MainVerify(ok) ==
  /\ ipc = "verify"
  /\ IF success
       THEN LET r == verify_installation(cargo, ok) IN
              /\ success' = r
              /\ ran' = ran \cup {<<"check " \o c, ok[c] /\ (c = "rustc" \/ cargo)>> :
                                    c \in VerifyChecks}
                            \cup {<<"verify_installation", r>>}
       ELSE UNCHANGED <<success, ran>>
  /\ ipc' = "report"
  /\ UNCHANGED <<cargo, execVars, limiterVars>>

(* lines 172-185 *)
MainReport ==
  /\ ipc = "report"
  /\ ran' = IF success
              THEN ran \cup {<<"setup_complete", TRUE>>,
                             <<"create_project_update_script", TRUE>>}
              ELSE ran \cup {<<"setup_failed", TRUE>>}
  /\ ipc' = "wait"
  /\ UNCHANGED <<success, cargo, execVars, limiterVars>>

(* line 187 *)
MainWaitInput ==
  /\ ipc = "wait"
  /\ ipc' = "done"
  /\ UNCHANGED <<success, cargo, ran, execVars, limiterVars>>

NextInstaller ==
  \/ \E probe \in {"ok", "fails", "missing"}, installer_ok \in BOOLEAN,
        path_exists \in BOOLEAN : MainInstallRust(probe, installer_ok, path_exists)
  \/ \E install_ok \in BOOLEAN : MainInstallCargoComponent(install_ok)
  \/ \E tool_ok \in [WasmTools -> BOOLEAN] : MainInstallWasmTools(tool_ok)
  \/ \E ok \in [VerifyChecks -> BOOLEAN] : MainVerify(ok)
  \/ MainReport
  \/ MainWaitInput

SpecInstaller == Init /\ [][NextInstaller]_vars

----------------------------------------------------------------------------
(* Vocabulary of the properties *)

Contains(str, token) == \E i \in 1..Len(str) : str[i] = token

(* an error that reports a missing session or file: a NotFound kind, or    *)
(* run_code's anyhow error "File not found"                                *)
IsNotFound(e) ==
  e.kind = "NotFound" \/ (e.kind = "anyhow" /\ e.msg = "File not found")

(* an error that reports undecodable source: a DecodeError kind, or an     *)
(* anyhow error wrapping the FromUtf8Error                                 *)
IsDecodeError(e) ==
  e.kind = "DecodeError" \/ (e.kind = "anyhow" /\ e.msg = "FromUtf8Error")

(* the step on which the evaluation of a stateless call returns *)
RunReturns == pc = "running" /\ inv.op = "run" /\ pc' = "idle"

RunResult == last.result[1].run

C2_NoFaultIsSuccess ==
  [][(RunReturns /\ Interp(inv.text).kind = "value") =>
       /\ last'.ret = "Ok"
       /\ last'.result # None
       /\ last'.result[1].run.exit_code = Some(0)
       /\ last'.result[1].run.stderr = <<>>]_vars

C2_Witness ==
  /\ last.op = "run" /\ last.ret = "Ok" /\ last.executed = Some(<<118>>)
  /\ RunResult.exit_code = Some(0)
  /\ RunResult.stderr = <<>>
  /\ RunResult.stdout = <<"ok">>

(* C3: a call whose program never terminates is not inside the evaluation  *)
(* later than its timeout plus the overhead after it started.              *)
C3_LoopIsCancelled ==
  (pc = "running" /\ Interp(inv.text).kind = "loop") =>
     now - inv.start_time <= inv.timeout + Overhead

(* C4: a call that returns after more than its time budget returns a       *)
(* Result whose run stage carries a marker that neither a normal           *)
(* completion (exit code 0, no signal) nor a program fault (exit code 1,   *)
(* no signal) carries.                                                     *)
TimeoutMarked(stage) ==
  stage.signal # None \/ (stage.exit_code # None /\ stage.exit_code[1] \notin {0, 1})

C4_TimeoutIsMarked ==
  (last.op \in {"run", "session_run"} /\ last.result # None
     /\ last.result[1].time_ms[1] > Timeout(last.limits)) =>
       /\ last.ret = "Ok"
       /\ TimeoutMarked(RunResult)
       /\ pc = "idle"

(* C5: the content a session stores under each name is the content of the  *)
(* most recent upload of that name, and it stores nothing under a name     *)
(* that was not uploaded.                                                  *)
C5_LastWriteWins ==
  \A id \in DOMAIN sessions : sessions[id].files = recent[id]

C5_Witness ==
  /\ last.op = "upload" /\ last.ret = "Ok" /\ last.replaced
  /\ Cardinality(DOMAIN sessions[last.id].files) = 2

(* C6: get, get_mut and remove on an id that is not registered return the  *)
(* not-found value and leave the sessions as they were.                    *)
C6_UnknownIdNotFound ==
  [][\A id \in Ids :
       (id \notin DOMAIN sessions /\ (Get(id) \/ GetMut(id) \/ Remove(id))) =>
          (last'.ret = "None" /\ sessions' = sessions)]_vars

C6_Witness ==
  /\ last.op \in {"get", "get_mut", "remove"}
  /\ last.ret = "None" /\ ~last.existed
  /\ sessions # EmptyMap

(* C7: a run fails with NotFound exactly when the requested entry point is *)
(* absent from the file set, and then executes nothing.  Guest::run takes  *)
(* no entry-point name, so for a stateless call the only file set whose    *)
(* answer does not depend on the name is the empty one, from which every   *)
(* name is absent.                                                         *)
C7_NotFoundIffAbsent ==
  /\ (last.op = "session_run" /\ last.existed) =>
       /\ (last.ret = "Err" /\ IsNotFound(last.err))
            <=> last.name \notin DOMAIN sessions[last.id].files
       /\ last.name \notin DOMAIN sessions[last.id].files => last.executed = None
  /\ (last.op = "run" /\ last.nfiles = 0) =>
       (last.ret = "Err" /\ IsNotFound(last.err) /\ last.executed = None)
  /\ (last.op = "run" /\ last.nfiles > 0) => ~IsNotFound(last.err)

(* C8: a stateless call with one file executes that file; a call with      *)
(* more than one file executes only an entry point that was named, and     *)
(* Guest::run has no parameter that names one.                             *)
C8_NoPositionalEntry ==
  /\ (last.op = "run" /\ last.nfiles = 1 /\ last.ret = "Ok") => last.executed # None
  /\ (last.op = "run" /\ last.nfiles > 1) => last.executed = None

(* C9: a run whose entry file is not valid text returns Err of kind        *)
(* DecodeError, a kind that is neither HostInternal nor NotFound, and      *)
(* executes nothing.                                                       *)
C9_DecodeErrorKind ==
  (last.op \in {"run", "session_run"} /\ last.err.msg = "FromUtf8Error") =>
     /\ last.ret = "Err"
     /\ IsDecodeError(last.err)
     /\ last.err.kind # "Internal"
     /\ ~IsNotFound(last.err)
     /\ last.executed = None

(* C10: create on a registered id either fails with AlreadyExists and      *)
(* leaves the sessions as they were, or succeeds and registers a session   *)
(* with the new language and no files.                                     *)
C10_CreateNeverMixes ==
  [][\A id \in Ids, language \in Languages :
       (id \in DOMAIN sessions /\ Create(id, language)) =>
          \/ last'.ret = "AlreadyExists" /\ sessions' = sessions
          \/ /\ last'.ret = "Ok"
             /\ sessions'[id].language = language
             /\ sessions'[id].files = EmptyMap]_vars

C10_Witness ==
  /\ last.op = "create" /\ last.ret = "Ok" /\ last.existed /\ last.replaced
  /\ sessions[last.id].files = EmptyMap
  /\ sessions[last.id].language = last.lang

(* C11: a call that supplies limits.memory_bytes = M returns a Result      *)
(* whose memory_bytes is present and equal to M.                           *)
C11_MemoryCeilingReported ==
  (last.result # None /\ last.limits # None /\ last.limits[1].memory_bytes # None) =>
     last.result[1].memory_bytes = last.limits[1].memory_bytes

(* C12: the run stage's stdout of a program that does not fault is what    *)
(* the program printed, line by line and in order, and nothing the program *)
(* printed went anywhere else.                                             *)
C12_PrintedIsStdout ==
  (last.op = "run" /\ last.result # None /\ Interp(last.executed[1]).kind = "value") =>
     /\ RunResult.stdout = Println(Interp(last.executed[1]).prints)
     /\ RunResult.exit_code = Some(0)
     /\ last.console = <<>>

(* C13: every Result has a run stage with stdout and stderr present as     *)
(* strings and, for the JavaScript backend, no compile stage.              *)
C13_RunStageOnly ==
  last.result # None =>
     /\ RunResult.stdout \in Seq(STRING)
     /\ RunResult.stderr \in Seq(STRING)
     /\ last.result[1].compile = None

C13_Witness ==
  /\ last.op = "run" /\ last.result # None
  /\ RunResult.stdout = <<>>
  /\ RunResult.stderr # <<>>
  /\ last.result[1].compile = None

(* C14: check_timeout fails with Timeout exactly when the elapsed time     *)
(* exceeds the budget, the budget being the configured time_ms or 5000 ms  *)
(* when no time_ms was configured.                                         *)
Budget(max_time) ==
  IF max_time = None THEN from_millis(DefaultTimeoutMs) ELSE max_time[1]

C14_TimeoutIffOverBudget ==
  chk.done =>
    (chk.ret = "Timeout" <=>
       DurationGt(from_millis(chk.elapsed_ms), Budget(chk.max_time)))

(* C15: a Result comes only out of Running, a call that reached Running    *)
(* is surfaced as a Result that is exactly one of Completed, TimedOut and  *)
(* Faulted, never as an Error, and every call that reached Running ends.   *)
Completed(stage) == stage.exit_code = Some(0) /\ stage.signal = None
Faulted(stage) == stage.exit_code = Some(1) /\ stage.signal = None

ExactlyOneTerminal(stage) ==
  Cardinality({k \in {"Completed", "TimedOut", "Faulted"} :
                 \/ k = "Completed" /\ Completed(stage)
                 \/ k = "TimedOut" /\ TimeoutMarked(stage)
                 \/ k = "Faulted" /\ Faulted(stage)}) = 1

C16_RuntimePerCall ==
  (last.op \in {"run", "session_run"} /\ last.executed # None) =>
     last.runtime = "call"

OthersUnchanged(id) ==
  \A o \in Ids \ {id} :
     /\ o \in DOMAIN sessions' <=> o \in DOMAIN sessions
     /\ o \in DOMAIN sessions => sessions'[o] = sessions[o]

C18_FrameOfSessionOps ==
  [][sessions' # sessions =>
       /\ last'.op \in {"upload", "create", "remove"}
       /\ OthersUnchanged(last'.id)
       /\ last'.op = "upload" =>
            /\ last'.id \in DOMAIN sessions /\ last'.id \in DOMAIN sessions'
            /\ [sessions'[last'.id] EXCEPT !.files = EmptyMap]
                 = [sessions[last'.id] EXCEPT !.files = EmptyMap]
            /\ DOMAIN sessions'[last'.id].files
                 = DOMAIN sessions[last'.id].files \cup {last'.name}
            /\ \A n \in DOMAIN sessions[last'.id].files \ {last'.name} :
                 sessions'[last'.id].files[n] = sessions[last'.id].files[n]]_vars

C18_Witness ==
  /\ last.op = "upload" /\ last.ret = "Ok" /\ ~last.replaced
  /\ Cardinality(DOMAIN sessions) = 2
  /\ Cardinality(DOMAIN sessions[last.id].files) = 2

(* C19: the installer's steps are gated in order, a wasm tool that fails   *)
(* to install does not fail the setup, and after a gating step has failed  *)
(* no later step is run.                                                   *)
Ran(step) == \E ok \in BOOLEAN : <<step, ok>> \in ran
Succeeded(step) == <<step, TRUE>> \in ran

C19_InstallerGating ==
  /\ [](/\ Ran("install_cargo_component") => Succeeded("install_rust")
        /\ (Ran("install_wasm_tools") \/ Ran("verify_installation")) =>
             (Succeeded("install_rust") /\ Succeeded("install_cargo_component"))
        /\ Ran("create_project_update_script") =>
             /\ Succeeded("install_rust") /\ Succeeded("install_cargo_component")
             /\ Succeeded("verify_installation") /\ Ran("setup_complete")
        /\ ipc \in {"wait", "done"} =>
             (success <=> /\ Succeeded("install_rust")
                          /\ Succeeded("install_cargo_component")
                          /\ Succeeded("verify_installation")))
  /\ [][ipc = "wasm_tools" => success' = success]_vars
  /\ [][~success => ran' \subseteq ran \cup {<<"setup_failed", TRUE>>}]_vars

C19_Witness ==
  /\ ipc = "done" /\ success
  /\ <<"wasm-tools", FALSE>> \in ran
  /\ Ran("create_project_update_script")

====
